---- MODULE Spec2Model ----
(***************************************************************************)
(* A state-machine model of drivers/media/v4l2-core/videobuf2-dma-contig.c, *)
(* the DMA-contig memory allocator of videobuf2.                            *)
(*                                                                          *)
(* One buffer descriptor (struct vb2_dc_buf) is modelled at a time.  It is  *)
(* created by one of the three acquisition callbacks (vb2_dc_alloc,         *)
(* vb2_dc_get_userptr, vb2_dc_attach_dmabuf), driven through the callbacks  *)
(* of its memory type and destroyed by the matching release callback; then  *)
(* the next descriptor may be created.  Everything the file calls but does  *)
(* not implement (kzalloc, the DMA API, frame vectors, the dma-buf core)    *)
(* is environment: its result is a nondeterministic input of the action,    *)
(* and the resources it hands out are counted in the ledger `held`.         *)
(*                                                                          *)
(* Spec drives the vb2_mem_ops callbacks.  SpecExport drives the            *)
(* dma_buf_ops callbacks on a dma_buf exported from an MMAP buffer, with    *)
(* vb2_dc_dmabuf_ops_map split into steps so that concurrent callers        *)
(* interleave.  SpecContig applies vb2_dc_get_contiguous_size to a table.   *)
(***************************************************************************)
EXTENDS Integers, Sequences, FiniteSets, TLC

(***************************************************************************)
(* Bounds of the model.                                                     *)
(***************************************************************************)
MaxExports == 2     \* dma_bufs exported from one MMAP buffer
MaxSize    == 3     \* largest buffer size asked for (bytes)
MaxAddr    == 1     \* largest DMA address of a scatterlist segment
MaxLen     == 1     \* largest DMA length of a scatterlist segment
MaxSegs    == 2     \* largest number of mapped scatterlist segments
MaxPages   == 2     \* largest number of frames in a frame vector
MaxPfn     == 2     \* largest page frame number
MaxVaddr   == 1     \* largest user virtual address handed to get_userptr
MaxVmaps   == 2     \* dma_buf_vmap mappings outstanding at once
MaxAttach  == 1     \* attachments to one exported dma_buf
MaxCallers == 2     \* concurrent callers of dma_buf_map_attachment
ProbeMaxAddr == 4   \* largest DMA address in a table measured on its own
ProbeMaxLen  == 2   \* largest DMA length in such a table
ProbeMaxSegs == 3   \* largest number of segments of such a table

(***************************************************************************)
(* Errno values used by the file (returned negated).                        *)
(***************************************************************************)
EIO    == 5
ENOMEM == 12
EFAULT == 14
EINVAL == 22

\* dma_get_cache_alignment() and PAGE_SHIFT, scaled down to the model's sizes.
dma_align  == 2
PAGE_SHIFT == 1

NULL == 0

\* enum dma_data_direction as the framework hands it to the callbacks.
Dirs == {"DMA_BIDIRECTIONAL", "DMA_TO_DEVICE", "DMA_FROM_DEVICE"}

(***************************************************************************)
(* Scatterlist tables after DMA mapping: sgt->nents segments, each with     *)
(* sg_dma_address and sg_dma_len.  The empty sequence is the NULL pointer.  *)
(***************************************************************************)
Segment == [addr : 0..MaxAddr, len : 1..MaxLen]

SgTables == UNION { [1..n -> Segment] : n \in 1..MaxSegs }

NoSgt == << >>

sg_dma_address(s) == s.addr

sg_dma_len(s) == s.len

(***************************************************************************)
(* vb2_dc_get_contiguous_size: the for_each_sg loop, entry i with the       *)
(* running `expected` and `size`.                                           *)
(***************************************************************************)
RECURSIVE contiguous_loop(_, _, _, _)
contiguous_loop(sgt, i, expected, size) ==
    IF i > Len(sgt) THEN size
    ELSE IF sg_dma_address(sgt[i]) # expected THEN size
    ELSE contiguous_loop(sgt, i + 1,
                         sg_dma_address(sgt[i]) + sg_dma_len(sgt[i]),
                         size + sg_dma_len(sgt[i]))

\* A scan that never stops: the sum of all lengths.
RECURSIVE contiguous_size_all(_)
contiguous_size_all(sgt) ==
    IF sgt = << >> THEN 0
    ELSE sg_dma_len(Head(sgt)) + contiguous_size_all(Tail(sgt))

vb2_dc_get_contiguous_size(sgt) ==
    contiguous_loop(sgt, 1, sg_dma_address(sgt[1]), 0)

(***************************************************************************)
(* Bit operations on naturals, for IS_ALIGNED(vaddr | size, dma_align).     *)
(***************************************************************************)
RECURSIVE BitOr(_, _)
BitOr(a, b) ==
    IF a = 0 THEN b
    ELSE IF b = 0 THEN a
    ELSE (IF a % 2 = 1 \/ b % 2 = 1 THEN 1 ELSE 0) + 2 * BitOr(a \div 2, b \div 2)

RECURSIVE BitAnd(_, _)
BitAnd(a, b) ==
    IF a = 0 \/ b = 0 THEN 0
    ELSE (IF a % 2 = 1 /\ b % 2 = 1 THEN 1 ELSE 0) + 2 * BitAnd(a \div 2, b \div 2)

\* #define IS_ALIGNED(x, a) (((x) & ((typeof(x))(a) - 1)) == 0)
IS_ALIGNED(x, a) == BitAnd(x, a - 1) = 0

RECURSIVE Pow2(_)
Pow2(n) == IF n = 0 THEN 1 ELSE 2 * Pow2(n - 1)

\* The last-resort variant: (dma_addr_t)(pfn) << PAGE_SHIFT.
vb2_dc_pfn_to_dma(pfn) == pfn * Pow2(PAGE_SHIFT)

(***************************************************************************)
(* The resource ledger.  An event is one call into the environment that     *)
(* acquires ("acq") or releases ("rel") a resource, or one that does        *)
(* neither ("note").                                                        *)
(***************************************************************************)
Resources == {"buf", "coherent", "dev", "sgt_base", "vec", "sgt", "sgt_entries",
              "dma_map", "attach", "map_attach", "vmap"}

Acq(r)  == [k |-> "acq", r |-> r]

Rel(r)  == [k |-> "rel", r |-> r]

Note(r) == [k |-> "note", r |-> r]

NoneHeld == [r \in Resources |-> 0]

ApplyEvent(h, e) ==
    IF e.k = "acq" THEN [h EXCEPT ![e.r] = @ + 1]
    ELSE IF e.k = "rel" THEN [h EXCEPT ![e.r] = @ - 1]
    ELSE h

RECURSIVE ApplyEvents(_, _)
ApplyEvents(h, ev) ==
    IF ev = << >> THEN h ELSE ApplyEvents(ApplyEvent(h, Head(ev)), Tail(ev))

(***************************************************************************)
(* State.                                                                   *)
(***************************************************************************)
VARIABLES
    buf,        \* struct vb2_dc_buf: the descriptor (ZeroBuf once freed)
    memtype,    \* "NONE", or the callbacks that own the live descriptor
    pc,         \* where each holder of an MMAP buffer stands in vb2_dc_put
    teardowns,  \* how often lines 132-138 ran for the current MMAP buffer
    coherent_mem, \* the DMA API's live coherent allocation, << >> if none
    args,       \* the size arguments of the last callback
    contig_size, \* its local contig_size, -1 if it computed none
    held,       \* resources held, by kind
    op,         \* the last callback that ran
    ret,        \* what it returned
    trace,      \* the environment calls it made, in order
    attachments, \* struct vb2_dc_attachment of each dma_buf_attachment
    lock,       \* dmabuf->lock of the exported dma_buf: its owner, 0 if free
    call,       \* each caller's position in vb2_dc_dmabuf_ops_map
    xlast,      \* the last dma_buf_ops callback that returned
    sgt_arg     \* the table handed to vb2_dc_get_contiguous_size on its own

\* The state of the vb2_mem_ops callbacks ...
memops_vars == <<buf, memtype, pc, teardowns, coherent_mem, args, contig_size,
                 held, op, ret, trace>>

\* ... and of the dma_buf_ops callbacks of an exported buffer.
dmabuf_ops_vars == <<attachments, lock, call, xlast>>

vars == <<buf, memtype, pc, teardowns, coherent_mem, args, contig_size,
          held, op, ret, trace, attachments, lock, call, xlast, sgt_arg>>

\* A holder of a reference to an MMAP buffer: the framework, or a dma_buf.
Holders == {0} \cup (1..MaxExports)

Framework == 0

\* The descriptor as kzalloc returns it.
ZeroBuf == [dev |-> NULL, vaddr |-> NULL, size |-> 0, dma_addr |-> 0,
            dma_dir |-> "DMA_BIDIRECTIONAL", dma_sgt |-> NoSgt,
            vec |-> [n |-> 0, pfns |-> << >>, is_pages |-> FALSE],
            refcount |-> 0, sgt_base |-> NULL, db_attach |-> NULL]

NoHolders == [h \in Holders |-> "none"]

\* The arguments a callback was given: the user address (get_userptr), the
\* size asked for and the size of the dma_buf (attach); nums are the frame
\* numbers get_userptr found when the range has no struct page.
Args(vaddr, size, dbuf_size) ==
    [vaddr |-> vaddr, size |-> size, dbuf_size |-> dbuf_size, nums |-> << >>]

NoArgs == Args(0, 0, 0)

NoContig == -1

\* enum dma_data_direction: no mapping is cached.
DMA_NONE == "DMA_NONE"

\* struct vb2_dc_attachment behind db_attach->priv (priv: it is not NULL):
\* the cached direction, sgt.nents, and the device translations of its table
\* that dma_map_sg made and dma_unmap_sg has not undone, by direction.
NoAttachment == [priv |-> FALSE, dma_dir |-> DMA_NONE, nents |-> 0,
                 mapped |-> << >>]

Callers == 1..MaxCallers

\* A caller outside vb2_dc_dmabuf_ops_map.
IdleCall == [pc |-> "idle", a |-> 0, dma_dir |-> DMA_NONE, events |-> << >>]

\* No dma_buf_ops callback has run.
NoOps == [name |-> "init", ret |-> 0, cached |-> FALSE, after_unmap |-> FALSE,
          events |-> << >>]

NoDmabufOps ==
    /\ attachments = [a \in 1..MaxAttach |-> NoAttachment]
    /\ lock = 0
    /\ call = [t \in Callers |-> IdleCall]
    /\ xlast = NoOps

Init ==
    /\ NoDmabufOps
    /\ sgt_arg = NoSgt
    /\ buf = ZeroBuf
    /\ memtype = "NONE"
    /\ pc = NoHolders
    /\ teardowns = 0
    /\ coherent_mem = << >>
    /\ args = NoArgs
    /\ contig_size = NoContig
    /\ held = NoneHeld
    /\ op = "init"
    /\ ret = 0
    /\ trace = << >>

\* The framework asks for a new buffer only when no callback of the previous
\* one is still running.
CanAcquire ==
    /\ memtype = "NONE"
    /\ \A h \in Holders : pc[h] \in {"none", "done"}

\* The end of a callback: its name, its return value, its environment calls,
\* the sizes it was given and the contig_size it computed.
Return(name, r, events, a, c) ==
    /\ op' = name
    /\ ret' = r
    /\ trace' = events
    /\ held' = ApplyEvents(held, events)
    /\ args' = a
    /\ contig_size' = c
    /\ UNCHANGED <<dmabuf_ops_vars, sgt_arg>>

\* The same for an acquisition callback, which starts a new ledger.
ReturnNew(name, r, events, a, c) ==
    /\ op' = name
    /\ ret' = r
    /\ trace' = events
    /\ held' = ApplyEvents(NoneHeld, events)
    /\ args' = a
    /\ contig_size' = c
    /\ UNCHANGED <<dmabuf_ops_vars, sgt_arg>>

\* An acquisition callback that fails leaves no descriptor.
NoDescriptor ==
    /\ buf' = ZeroBuf
    /\ memtype' = "NONE"
    /\ pc' = NoHolders
    /\ coherent_mem' = << >>

(***************************************************************************)
(* Callbacks for MMAP buffers.                                              *)
(***************************************************************************)

\* atomic_inc / atomic_dec_and_test on buf->refcount.
atomic_inc(v) == v + 1

\* A decrement by two, as a double put would make.
atomic_dec_by_two(v) == v - 2

atomic_dec(v) == v - 1

\* A test that also fires when one reference is left.
atomic_dec_and_test_early(v) == atomic_dec(v) <= 1

atomic_dec_and_test(v) == atomic_dec(v) = 0

\* vb2_dc_alloc without the atomic_inc of line 169.
vb2_dc_alloc_buf_noinc(size, dma_dir, vaddr, dma_addr) ==
    [ZeroBuf EXCEPT !.vaddr = vaddr, !.dma_addr = dma_addr, !.dev = 1,
                    !.size = size, !.dma_dir = dma_dir]

\* vb2_dc_alloc, lines 152-169: the descriptor a successful call returns.
vb2_dc_alloc_buf(size, dma_dir, vaddr, dma_addr) ==
    [ZeroBuf EXCEPT !.vaddr = vaddr, !.dma_addr = dma_addr, !.dev = 1,
                    !.size = size, !.dma_dir = dma_dir,
                    !.refcount = atomic_inc(ZeroBuf.refcount)]

vb2_dc_alloc ==
    /\ CanAcquire
    /\ teardowns' = 0
    /\ \E size \in 0..MaxSize :
         \/ \* kzalloc fails
            /\ ReturnNew("alloc", -ENOMEM, << >>, Args(0, size, 0), NoContig)
            /\ NoDescriptor
         \/ \* dma_alloc_coherent fails
            /\ ReturnNew("alloc", -ENOMEM, <<Acq("buf"), Rel("buf")>>,
                         Args(0, size, 0), NoContig)
            /\ NoDescriptor
         \/ \E dma_dir \in Dirs, dma_addr \in 0..MaxAddr :
            /\ ReturnNew("alloc", 0, <<Acq("buf"), Acq("coherent"), Acq("dev")>>,
                         Args(0, size, 0), NoContig)
            /\ buf' = vb2_dc_alloc_buf(size, dma_dir, 1, dma_addr)
            /\ memtype' = "MMAP"
            /\ pc' = [NoHolders EXCEPT ![Framework] = "holds"]
            /\ coherent_mem' = <<[vaddr |-> 1, dma_addr |-> dma_addr, size |-> size]>>

\* vb2_dc_get_base_sgt: NULL when kmalloc or dma_get_sgtable fails.
vb2_dc_get_base_sgt(ok) == IF ok THEN 1 ELSE NULL

\* An export that takes no reference.
get_dmabuf_noref(b) == b

\* Line 475: the dma_buf keeps a reference to the buffer.
get_dmabuf_ref(b) == [b EXCEPT !.refcount = atomic_inc(@)]

\* vb2_dc_get_dmabuf, called by the framework on a buffer it holds; d is the
\* dma_buf that dma_buf_export creates.
vb2_dc_get_dmabuf ==
    /\ memtype = "MMAP"
    /\ pc[Framework] = "holds"
    /\ \E d \in 1..MaxExports, sgt_ok \in BOOLEAN, export_ok \in BOOLEAN :
         /\ pc[d] = "none"
         /\ \A e \in 1..MaxExports : e < d => pc[e] # "none"
         /\ LET base == IF buf.sgt_base = NULL
                        THEN vb2_dc_get_base_sgt(sgt_ok) ELSE buf.sgt_base
                ev   == IF buf.sgt_base = NULL /\ base # NULL
                        THEN <<Acq("sgt_base")>> ELSE << >>
            IN  IF base = NULL
                THEN /\ Return("get_dmabuf", NULL, ev, NoArgs, NoContig)
                     /\ UNCHANGED <<buf, pc>>
                ELSE IF ~export_ok
                THEN /\ Return("get_dmabuf", NULL, ev, NoArgs, NoContig)
                     /\ buf' = [buf EXCEPT !.sgt_base = base]
                     /\ UNCHANGED pc
                ELSE /\ Return("get_dmabuf", d, ev, NoArgs, NoContig)
                     /\ buf' = get_dmabuf_ref([buf EXCEPT !.sgt_base = base])
                     /\ pc' = [pc EXCEPT ![d] = "holds"]
    /\ UNCHANGED <<memtype, teardowns, coherent_mem>>

\* vb2_dc_put, line 129: the atomic decrement and its test.  Holder h is the
\* framework (vb2_dc_put) or a dma_buf (vb2_dc_dmabuf_ops_release).
vb2_dc_put_dec(h) ==
    /\ pc[h] = "holds"
    /\ buf' = [buf EXCEPT !.refcount = atomic_dec(@)]
    /\ pc' = [pc EXCEPT ![h] = IF atomic_dec_and_test(buf.refcount)
                               THEN "teardown" ELSE "done"]
    /\ Return("put", 0, << >>, NoArgs, NoContig)
    /\ UNCHANGED <<memtype, teardowns, coherent_mem>>

\* vb2_dc_put, lines 132-138, run by the holder whose decrement reached zero.
vb2_dc_put_teardown(h) ==
    /\ pc[h] = "teardown"
    /\ Return("put", 0,
              (IF buf.sgt_base # NULL THEN <<Rel("sgt_base")>> ELSE << >>)
              \o <<Rel("coherent"), Rel("dev"), Rel("buf")>>, NoArgs, NoContig)
    /\ teardowns' = teardowns + 1
    /\ coherent_mem' = << >>
    /\ buf' = ZeroBuf
    /\ memtype' = "NONE"
    /\ pc' = [pc EXCEPT ![h] = "done"]

vb2_dc_put == \E h \in {Framework} : vb2_dc_put_dec(h) \/ vb2_dc_put_teardown(h)

vb2_dc_dmabuf_ops_release ==
    \E h \in 1..MaxExports : vb2_dc_put_dec(h) \/ vb2_dc_put_teardown(h)

(***************************************************************************)
(* Callbacks for all buffers.                                               *)
(***************************************************************************)

\* The framework calls into a live buffer that it still holds.
FrameworkHolds ==
    /\ memtype # "NONE"
    /\ memtype = "MMAP" => pc[Framework] = "holds"

vb2_dc_num_users(b) == b.refcount

\* vb2_dc_vaddr: dma_buf_vmap is asked only for an attached buffer without
\* a cached mapping; it returns a mapping (1) or NULL.
vb2_dc_vaddr ==
    /\ FrameworkHolds
    /\ IF buf.vaddr = NULL /\ buf.db_attach # NULL
       THEN \E p \in {NULL, 1} :
              /\ p # NULL => held["vmap"] < MaxVmaps
              /\ buf' = [buf EXCEPT !.vaddr = p]
              /\ Return("vaddr", p, IF p # NULL THEN <<Acq("vmap")>>
                                    ELSE <<Note("dma_buf_vmap")>>,
                        NoArgs, NoContig)
       ELSE /\ UNCHANGED buf
            /\ Return("vaddr", buf.vaddr, << >>, NoArgs, NoContig)
    /\ UNCHANGED <<memtype, pc, teardowns, coherent_mem>>

\* A test that synchronises whenever the buffer has a table.
sync_needed_any_sgt(b) == b.dma_sgt # NoSgt

\* Lines 102 and 115: `if (!sgt || buf->db_attach) return;` did not return.
sync_needed(b) == ~(b.dma_sgt = NoSgt \/ b.db_attach # NULL)

\* vb2_dc_prepare: dma_sync_sg_for_device on the buffer's own table.
vb2_dc_prepare ==
    /\ FrameworkHolds
    /\ Return("prepare", 0,
              IF sync_needed(buf) THEN <<Note("dma_sync_sg_for_device")>>
              ELSE << >>, NoArgs, NoContig)
    /\ UNCHANGED <<buf, memtype, pc, teardowns, coherent_mem>>

\* vb2_dc_finish: dma_sync_sg_for_cpu on the buffer's own table.
vb2_dc_finish ==
    /\ FrameworkHolds
    /\ Return("finish", 0,
              IF sync_needed(buf) THEN <<Note("dma_sync_sg_for_cpu")>>
              ELSE << >>, NoArgs, NoContig)
    /\ UNCHANGED <<buf, memtype, pc, teardowns, coherent_mem>>

(***************************************************************************)
(* Callbacks for USERPTR buffers.                                           *)
(***************************************************************************)

\* The error labels of vb2_dc_get_userptr, each falling through to the next.
fail_buf == <<Rel("buf")>>

fail_pfnvec == <<Rel("vec")>> \o fail_buf

fail_sgt == <<Rel("sgt")>> \o fail_pfnvec

\* fail_sgt_init without its sg_free_table.
fail_sgt_init_leak == fail_sgt

fail_sgt_init == <<Rel("sgt_entries")>> \o fail_sgt

fail_map_sg == <<Rel("dma_map")>> \o fail_sgt_init

\* A failing vb2_dc_get_userptr: ERR_PTR(r) after the calls `events`.
get_userptr_fail(r, events, a, c) ==
    /\ ReturnNew("get_userptr", r, events, a, c)
    /\ NoDescriptor

\* A successful vb2_dc_get_userptr returning descriptor b.
get_userptr_ok(b, events, a, c) ==
    /\ ReturnNew("get_userptr", 0, events, a, c)
    /\ buf' = b
    /\ memtype' = "USERPTR"
    /\ pc' = NoHolders
    /\ coherent_mem' = << >>

\* A test that accepts any increasing frame numbers.
pfns_increasing(nums) == \A i \in 2..Len(nums) : nums[i - 1] < nums[i]

\* Lines 599-601: the frame numbers are consecutive.
pfns_contiguous(nums) == \A i \in 2..Len(nums) : nums[i - 1] + 1 = nums[i]

\* Lines 580-581, 589, 602, 643: the descriptor of the direct (pfn) mapping.
get_userptr_pfn_buf(size, dma_dir, nums) ==
    [ZeroBuf EXCEPT !.dev = 1, !.dma_dir = dma_dir,
                    !.vec = [n |-> Len(nums), pfns |-> nums, is_pages |-> FALSE],
                    !.dma_addr = vb2_dc_pfn_to_dma(nums[1]),
                    !.size = size]

\* Lines 580-581, 589, 640-643: the descriptor of the scatterlist mapping.
\* The identity of the pinned pages is not read again, only their number.
get_userptr_sgt_buf(size, dma_dir, n_pages, sgt) ==
    [ZeroBuf EXCEPT !.dev = 1, !.dma_dir = dma_dir,
                    !.vec = [n |-> n_pages, pfns |-> << >>, is_pages |-> TRUE],
                    !.dma_addr = sg_dma_address(sgt[1]),
                    !.dma_sgt = sgt,
                    !.size = size]

\* A check that only rejects an empty run.
contig_too_small_zero(contig, size) == contig = 0

\* Lines 633 and 696: the contiguous chunk is too small.
contig_too_small(contig, size) == contig < size

\* Lines 566 and 571: the checks before anything is allocated.
userptr_args_ok(vaddr, size) ==
    IS_ALIGNED(BitOr(vaddr, size), dma_align) /\ size # 0

vb2_dc_get_userptr ==
    /\ CanAcquire
    /\ teardowns' = 0
    /\ \E vaddr \in 0..MaxVaddr, size \in 0..MaxSize :
       LET a == Args(vaddr, size, 0) IN
         IF ~userptr_args_ok(vaddr, size)
         THEN get_userptr_fail(-EINVAL, << >>, a, NoContig)
         ELSE
           \/ \* kzalloc of the descriptor fails
              get_userptr_fail(-ENOMEM, << >>, a, NoContig)
           \/ \* vb2_create_framevec fails
              \E e \in {ENOMEM, EFAULT} :
                get_userptr_fail(-e, <<Acq("buf")>> \o fail_buf, a, NoContig)
           \/ \* frame_vector_to_pages fails: the frames have no struct page
              \E n_pages \in 1..MaxPages :
              \E nums \in [1..n_pages -> 0..MaxPfn] :
                IF ~pfns_contiguous(nums)
                THEN get_userptr_fail(-EINVAL,
                         <<Acq("buf"), Acq("vec")>> \o fail_pfnvec,
                         [a EXCEPT !.nums = nums], NoContig)
                ELSE \E dma_dir \in Dirs :
                     get_userptr_ok(get_userptr_pfn_buf(size, dma_dir, nums),
                         <<Acq("buf"), Acq("vec")>>,
                         [a EXCEPT !.nums = nums], NoContig)
           \/ \* kzalloc of the sg table fails
              get_userptr_fail(-ENOMEM,
                  <<Acq("buf"), Acq("vec")>> \o fail_pfnvec, a, NoContig)
           \/ \* sg_alloc_table_from_pages fails
              get_userptr_fail(-ENOMEM,
                  <<Acq("buf"), Acq("vec"), Acq("sgt")>> \o fail_sgt, a, NoContig)
           \/ \* dma_map_sg_attrs maps Len(sgt) segments (0: it fails)
              \E sgt \in SgTables \cup {NoSgt} :
                IF Len(sgt) <= 0
                THEN get_userptr_fail(-EIO,
                         <<Acq("buf"), Acq("vec"), Acq("sgt"),
                           Acq("sgt_entries")>> \o fail_sgt_init, a, NoContig)
                ELSE IF contig_too_small(vb2_dc_get_contiguous_size(sgt), size)
                THEN get_userptr_fail(-EFAULT,
                         <<Acq("buf"), Acq("vec"), Acq("sgt"),
                           Acq("sgt_entries"), Acq("dma_map")>> \o fail_map_sg,
                         a, vb2_dc_get_contiguous_size(sgt))
                ELSE \E n_pages \in 1..MaxPages, dma_dir \in Dirs :
                     get_userptr_ok(
                         get_userptr_sgt_buf(size, dma_dir, n_pages, sgt),
                         <<Acq("buf"), Acq("vec"), Acq("sgt"),
                           Acq("sgt_entries"), Acq("dma_map")>>,
                         a, vb2_dc_get_contiguous_size(sgt))

\* Lines 507-508: set_page_dirty_lock on each of the n pages.
dirty_pages(n) == [i \in 1..n |-> Note("set_page_dirty_lock")]

vb2_dc_put_userptr ==
    /\ memtype = "USERPTR"
    /\ Return("put_userptr", 0,
              (IF buf.dma_sgt # NoSgt
               THEN <<Rel("dma_map")>> \o dirty_pages(buf.vec.n)
                    \o <<Rel("sgt_entries"), Rel("sgt")>>
               ELSE << >>)
              \o <<Rel("vec"), Rel("buf")>>, NoArgs, NoContig)
    /\ buf' = ZeroBuf
    /\ memtype' = "NONE"
    /\ UNCHANGED <<pc, teardowns, coherent_mem>>

(***************************************************************************)
(* Callbacks for DMABUF buffers (the importing side).                       *)
(***************************************************************************)

\* Lines 777-779: the descriptor a successful attach returns.
vb2_dc_attach_buf(size, dma_dir) ==
    [ZeroBuf EXCEPT !.dev = 1, !.dma_dir = dma_dir, !.size = size,
                    !.db_attach = 1]

\* A size test that lets every dma_buf through.
dbuf_too_small_never(dbuf_size, size) == FALSE

\* Line 761: dbuf->size < size.
dbuf_too_small(dbuf_size, size) == dbuf_size < size

vb2_dc_attach_dmabuf ==
    /\ CanAcquire
    /\ teardowns' = 0
    /\ \E dbuf_size \in 0..MaxSize, size \in 0..MaxSize :
         IF dbuf_too_small(dbuf_size, size)
         THEN /\ ReturnNew("attach_dmabuf", -EFAULT, << >>,
                           Args(0, size, dbuf_size), NoContig)
              /\ NoDescriptor
         ELSE
           \/ \* kzalloc fails
              /\ ReturnNew("attach_dmabuf", -ENOMEM, << >>,
                           Args(0, size, dbuf_size), NoContig)
              /\ NoDescriptor
           \/ \* dma_buf_attach fails
              /\ ReturnNew("attach_dmabuf", -ENOMEM, <<Acq("buf"), Rel("buf")>>,
                           Args(0, size, dbuf_size), NoContig)
              /\ NoDescriptor
           \/ \E dma_dir \in Dirs :
              /\ ReturnNew("attach_dmabuf", 0, <<Acq("buf"), Acq("attach")>>,
                           Args(0, size, dbuf_size), NoContig)
              /\ buf' = vb2_dc_attach_buf(size, dma_dir)
              /\ memtype' = "DMABUF"
              /\ pc' = NoHolders
              /\ coherent_mem' = << >>

\* A map that records the address of the last segment, not the first.
vb2_dc_map_buf_last(b, sgt) ==
    [b EXCEPT !.dma_addr = sg_dma_address(sgt[Len(sgt)]), !.dma_sgt = sgt,
              !.vaddr = NULL]

\* Lines 703-705: what a successful map records in the descriptor.
vb2_dc_map_buf(b, sgt) ==
    [b EXCEPT !.dma_addr = sg_dma_address(sgt[1]), !.dma_sgt = sgt,
              !.vaddr = NULL]

\* Line 684: what map returns for a buffer that is already pinned.
map_already_pinned_ret == 0

vb2_dc_map_dmabuf ==
    /\ memtype = "DMABUF"
    /\ IF buf.db_attach = NULL
       THEN /\ Return("map_dmabuf", -EINVAL, <<Note("WARN_ON")>>, NoArgs, NoContig)
            /\ UNCHANGED buf
       ELSE IF buf.dma_sgt # NoSgt
       THEN /\ Return("map_dmabuf", map_already_pinned_ret, <<Note("WARN_ON")>>,
                      NoArgs, NoContig)
            /\ UNCHANGED buf
       ELSE
         \/ \* dma_buf_map_attachment fails
            /\ Return("map_dmabuf", -EINVAL, <<Note("dma_buf_map_attachment")>>,
                      NoArgs, NoContig)
            /\ UNCHANGED buf
         \/ \E sgt \in SgTables :
              IF contig_too_small(vb2_dc_get_contiguous_size(sgt), buf.size)
              THEN /\ Return("map_dmabuf", -EFAULT,
                             <<Acq("map_attach"), Rel("map_attach")>>,
                             NoArgs, vb2_dc_get_contiguous_size(sgt))
                   /\ UNCHANGED buf
              ELSE /\ Return("map_dmabuf", 0, <<Acq("map_attach")>>,
                             NoArgs, vb2_dc_get_contiguous_size(sgt))
                   /\ buf' = vb2_dc_map_buf(buf, sgt)
    /\ UNCHANGED <<memtype, pc, teardowns, coherent_mem>>

\* An unmap that hands the table back before it drops the CPU mapping.
vb2_dc_unmap_events_late_vunmap(b) ==
    IF b.db_attach = NULL THEN <<Note("WARN_ON")>>
    ELSE IF b.dma_sgt = NoSgt THEN <<Note("WARN_ON")>>
    ELSE <<Rel("map_attach")>>
         \o (IF b.vaddr # NULL THEN <<Rel("vmap")>> ELSE << >>)

\* vb2_dc_unmap_dmabuf on descriptor b: the environment calls it makes ...
vb2_dc_unmap_events(b) ==
    IF b.db_attach = NULL THEN <<Note("WARN_ON")>>
    ELSE IF b.dma_sgt = NoSgt THEN <<Note("WARN_ON")>>
    ELSE (IF b.vaddr # NULL THEN <<Rel("vmap")>> ELSE << >>)
         \o <<Rel("map_attach")>>

\* ... and the descriptor it leaves.
vb2_dc_unmap_buf(b) ==
    IF b.db_attach = NULL \/ b.dma_sgt = NoSgt THEN b
    ELSE [b EXCEPT !.vaddr = NULL, !.dma_addr = 0, !.dma_sgt = NoSgt]

vb2_dc_unmap_dmabuf ==
    /\ memtype = "DMABUF"
    /\ Return("unmap_dmabuf", 0, vb2_dc_unmap_events(buf), NoArgs, NoContig)
    /\ buf' = vb2_dc_unmap_buf(buf)
    /\ UNCHANGED <<memtype, pc, teardowns, coherent_mem>>

\* Line 744: the test by which detach decides that the buffer is still mapped.
detach_sees_mapped(b) == b.dma_addr # 0

vb2_dc_detach_dmabuf ==
    /\ memtype = "DMABUF"
    /\ Return("detach_dmabuf", 0,
              (IF detach_sees_mapped(buf)
               THEN <<Note("WARN_ON")>> \o vb2_dc_unmap_events(buf) ELSE << >>)
              \o <<Rel("attach"), Rel("buf")>>, NoArgs, NoContig)
    /\ buf' = ZeroBuf
    /\ memtype' = "NONE"
    /\ UNCHANGED <<pc, teardowns, coherent_mem>>

(***************************************************************************)
(* DMABUF ops for exporters: the callbacks the dma-buf core runs on a       *)
(* dma_buf that vb2_dc_get_dmabuf exported.  The core calls attach and      *)
(* detach with dmabuf->lock held; map_dma_buf takes that lock itself.       *)
(***************************************************************************)

\* dma_map_sg / dma_unmap_sg on an attachment's table with direction d.
MapSg(d) == [k |-> "acq", r |-> "dma_map", dir |-> d]

UnmapSg(d) == [k |-> "rel", r |-> "dma_map", dir |-> d]

\* The entries of buf->sgt_base, which dma_get_sgtable builds for the one
\* coherent chunk; dma_map_sg maps that many, or none when it fails.
orig_nents == 1

\* The device translations left after dma_unmap_sg undid the latest one.
unmap_sg(m) == IF m = << >> THEN m ELSE SubSeq(m, 1, Len(m) - 1)

\* What a dma_buf_ops callback returned (a table is named by its attachment),
\* whether it was the cached table, and whether ops_unmap ran just before.
Returned(name, r, c) ==
    xlast' = [name |-> name, ret |-> r, cached |-> c,
              after_unmap |-> xlast.name = "ops_unmap", events |-> << >>]

\* The same for a callback whose environment calls `ev` are kept.
ReturnedWith(name, r, ev) ==
    xlast' = [name |-> name, ret |-> r, cached |-> FALSE,
              after_unmap |-> xlast.name = "ops_unmap", events |-> ev]

\* sg_free_table(sgt) and kfree(attach) of an attachment.
FreeSgt == [k |-> "rel", r |-> "sgt_entries", dir |-> DMA_NONE]

FreeAttachment == [k |-> "rel", r |-> "attachment", dir |-> DMA_NONE]

\* Lines 279-302: the attachment a successful attach installs.
vb2_dc_attachment_new == [NoAttachment EXCEPT !.priv = TRUE, !.dma_dir = DMA_NONE]

vb2_dc_dmabuf_ops_attach ==
    /\ lock = 0
    /\ buf.sgt_base # NULL
    /\ \E a \in 1..MaxAttach :
         /\ ~attachments[a].priv
         /\ \A b \in 1..MaxAttach : b < a => attachments[b].priv
         /\ \/ \* kzalloc or sg_alloc_table fails
               /\ Returned("ops_attach", -ENOMEM, FALSE)
               /\ UNCHANGED attachments
            \/ /\ Returned("ops_attach", 0, FALSE)
               /\ attachments' = [attachments EXCEPT ![a] = vb2_dc_attachment_new]
    /\ UNCHANGED <<memops_vars, lock, call, sgt_arg>>

\* A detach that frees the attachment without dma_unmap_sg.
ops_detach_attachment_nounmap(att) ==
    [NoAttachment EXCEPT !.mapped = att.mapped]

\* Lines 318-326: the translation is undone when a direction is cached; the
\* attachment is freed, and what it still had mapped stays mapped for good.
ops_detach_attachment(att) ==
    [NoAttachment EXCEPT !.mapped = IF att.dma_dir # DMA_NONE
                                    THEN unmap_sg(att.mapped) ELSE att.mapped]

\* Lines 321-325: the environment calls of a detach, in order.
ops_detach_events(att) ==
    (IF att.dma_dir # DMA_NONE THEN <<UnmapSg(att.dma_dir)>> ELSE << >>)
    \o <<FreeSgt, FreeAttachment>>

vb2_dc_dmabuf_ops_detach ==
    /\ lock = 0
    /\ \E a \in 1..MaxAttach :
         /\ \A t \in Callers : call[t].a # a
         /\ IF ~attachments[a].priv
            THEN /\ UNCHANGED attachments
                 /\ Returned("ops_detach", 0, FALSE)
            ELSE /\ attachments' = [attachments EXCEPT
                                      ![a] = ops_detach_attachment(@)]
                 /\ ReturnedWith("ops_detach", 0,
                                 ops_detach_events(attachments[a]))
    /\ UNCHANGED <<memops_vars, lock, call, sgt_arg>>

\* Lines 373-377: nothing to be done here.
vb2_dc_dmabuf_ops_unmap ==
    /\ \E a \in 1..MaxAttach : attachments[a].priv
    /\ Returned("ops_unmap", 0, FALSE)
    /\ UNCHANGED <<memops_vars, attachments, lock, call, sgt_arg>>

\* A caller enters vb2_dc_dmabuf_ops_map for attachment a and direction d.
ops_map_enter(t) ==
    /\ call[t].pc = "idle"
    /\ \E a \in 1..MaxAttach, d \in Dirs :
         /\ attachments[a].priv
         /\ call' = [call EXCEPT ![t] = [pc |-> "lock", a |-> a, dma_dir |-> d,
                                         events |-> << >>]]
    /\ UNCHANGED <<memops_vars, attachments, lock, xlast, sgt_arg>>

\* A mutex that lets everybody in.
mutex_free_always(l) == TRUE

mutex_free(l) == l = 0

\* Line 339: mutex_lock(lock).
ops_map_lock(t) ==
    /\ call[t].pc = "lock"
    /\ mutex_free(lock)
    /\ lock' = t
    /\ call' = [call EXCEPT ![t].pc = "check"]
    /\ UNCHANGED <<memops_vars, attachments, xlast, sgt_arg>>

\* A release that forgets the cached direction without dma_unmap_sg.
ops_map_release_keep(att) == [att EXCEPT !.dma_dir = DMA_NONE]

\* Lines 349-353: release any previous cache.
ops_map_release(att) ==
    IF att.dma_dir # DMA_NONE
    THEN [att EXCEPT !.mapped = unmap_sg(@), !.dma_dir = DMA_NONE]
    ELSE att

\* A cache test that never hits.
ops_map_cached_never(att, d) == FALSE

\* Line 343: the table is already mapped with the direction asked for.
ops_map_cached(att, d) == att.dma_dir = d

\* Lines 341-353: return the cached table, or release the previous mapping.
ops_map_check(t) ==
    /\ call[t].pc = "check"
    /\ LET a == call[t].a
           att == attachments[a]
       IN  IF ops_map_cached(att, call[t].dma_dir)
           THEN /\ lock' = 0
                /\ Returned("ops_map", a, TRUE)
                /\ call' = [call EXCEPT ![t] = IdleCall]
                /\ UNCHANGED attachments
           ELSE /\ attachments' = [attachments EXCEPT ![a] = ops_map_release(att)]
                /\ call' = [call EXCEPT
                              ![t].pc = "translate",
                              ![t].events = IF att.dma_dir # DMA_NONE
                                            THEN <<UnmapSg(att.dma_dir)>>
                                            ELSE << >>]
                /\ UNCHANGED <<lock, xlast>>
    /\ UNCHANGED <<memops_vars, sgt_arg>>

\* Lines 356-362: dma_map_sg with the new direction maps n entries.
ops_map_translate(t) ==
    /\ call[t].pc = "translate"
    /\ LET a == call[t].a
           d == call[t].dma_dir
       IN  \E n \in 0..orig_nents :
             IF n = 0
             THEN /\ attachments' = [attachments EXCEPT ![a].nents = n]
                  /\ lock' = 0
                  /\ Returned("ops_map", -EIO, FALSE)
                  /\ call' = [call EXCEPT ![t] = IdleCall]
             ELSE /\ attachments' = [attachments EXCEPT
                                       ![a].nents = n,
                                       ![a].mapped = Append(@, d)]
                  /\ call' = [call EXCEPT ![t].pc = "setdir",
                                          ![t].events = Append(@, MapSg(d))]
                  /\ UNCHANGED <<lock, xlast>>
    /\ UNCHANGED <<memops_vars, sgt_arg>>

\* Lines 364-368: cache the direction, unlock, return the table.
ops_map_setdir(t) ==
    /\ call[t].pc = "setdir"
    /\ attachments' = [attachments EXCEPT ![call[t].a].dma_dir = call[t].dma_dir]
    /\ lock' = 0
    /\ Returned("ops_map", call[t].a, FALSE)
    /\ call' = [call EXCEPT ![t] = IdleCall]
    /\ UNCHANGED <<memops_vars, sgt_arg>>

vb2_dc_dmabuf_ops_map ==
    \E t \in Callers :
      \/ ops_map_enter(t)
      \/ ops_map_lock(t)
      \/ ops_map_check(t)
      \/ ops_map_translate(t)
      \/ ops_map_setdir(t)

Next ==
    \/ vb2_dc_alloc
    \/ vb2_dc_get_dmabuf
    \/ vb2_dc_put
    \/ vb2_dc_dmabuf_ops_release
    \/ vb2_dc_vaddr
    \/ vb2_dc_prepare
    \/ vb2_dc_finish
    \/ vb2_dc_get_userptr
    \/ vb2_dc_put_userptr
    \/ vb2_dc_attach_dmabuf
    \/ vb2_dc_map_dmabuf
    \/ vb2_dc_unmap_dmabuf
    \/ vb2_dc_detach_dmabuf

Spec == Init /\ [][Next]_vars

(***************************************************************************)
(* The exporting side on its own: an MMAP buffer that was allocated and     *)
(* exported once, and the dma_buf_ops callbacks on that dma_buf.            *)
(***************************************************************************)

\* The buffer after vb2_dc_alloc and one vb2_dc_get_dmabuf.
ExportedBuf ==
    get_dmabuf_ref([vb2_dc_alloc_buf(1, "DMA_BIDIRECTIONAL", 1, 0)
                      EXCEPT !.sgt_base = vb2_dc_get_base_sgt(TRUE)])

InitExport ==
    /\ buf = ExportedBuf
    /\ memtype = "MMAP"
    /\ pc = [NoHolders EXCEPT ![Framework] = "holds", ![1] = "holds"]
    /\ teardowns = 0
    /\ coherent_mem = <<[vaddr |-> 1, dma_addr |-> 0, size |-> 1]>>
    /\ args = NoArgs
    /\ contig_size = NoContig
    /\ held = [NoneHeld EXCEPT !["buf"] = 1, !["coherent"] = 1, !["dev"] = 1,
                               !["sgt_base"] = 1]
    /\ op = "get_dmabuf"
    /\ ret = 1
    /\ trace = <<Acq("sgt_base")>>
    /\ NoDmabufOps
    /\ sgt_arg = NoSgt

NextExport ==
    \/ vb2_dc_dmabuf_ops_attach
    \/ vb2_dc_dmabuf_ops_detach
    \/ vb2_dc_dmabuf_ops_unmap
    \/ vb2_dc_dmabuf_ops_map

SpecExport == InitExport /\ [][NextExport]_vars

(***************************************************************************)
(* vb2_dc_get_contiguous_size on its own: any mapped table of up to         *)
(* ProbeMaxSegs segments is handed to the function once.                    *)
(***************************************************************************)
ProbeSegment == [addr : 0..ProbeMaxAddr, len : 1..ProbeMaxLen]

ProbeTables == UNION { [1..n -> ProbeSegment] : n \in 1..ProbeMaxSegs }

InitContig ==
    /\ buf = ZeroBuf
    /\ memtype = "NONE"
    /\ pc = NoHolders
    /\ teardowns = 0
    /\ coherent_mem = << >>
    /\ args = NoArgs
    /\ contig_size = NoContig
    /\ held = NoneHeld
    /\ op = "init"
    /\ ret = 0
    /\ trace = << >>
    /\ NoDmabufOps
    /\ sgt_arg \in ProbeTables

\* contig_size = vb2_dc_get_contiguous_size(sgt);
get_contiguous_size_call ==
    /\ contig_size = NoContig
    /\ contig_size' = vb2_dc_get_contiguous_size(sgt_arg)
    /\ UNCHANGED <<buf, memtype, pc, teardowns, coherent_mem, args, held, op,
                   ret, trace, dmabuf_ops_vars, sgt_arg>>

NextContig == get_contiguous_size_call

SpecContig == InitContig /\ [][NextContig]_vars

(***************************************************************************)
(* Properties.                                                              *)
(***************************************************************************)

Holding == {h \in Holders : pc[h] = "holds"}

Tearing == {h \in Holders : pc[h] = "teardown"}

\* An MMAP buffer was allocated and no other buffer has replaced it yet.
MmapLife == pc[Framework] # "none"

Acqs(tr) == SelectSeq(tr, LAMBDA e : e.k = "acq")

Rels(tr) == SelectSeq(tr, LAMBDA e : e.k = "rel")

ResOf(tr) == [i \in 1..Len(tr) |-> tr[i].r]

Reverse(q) == [i \in 1..Len(q) |-> q[Len(q) + 1 - i]]

\* The positions of event e in trace tr.
Positions(tr, e) == {i \in 1..Len(tr) : tr[i] = e}

\* C1: under every interleaving of the releases of the framework and of the
\* export consumers of an MMAP buffer, the teardown of vb2_dc_put (free of
\* the coherent memory, put_device, kfree) runs exactly once: only the holder
\* whose decrement brought refcount to zero runs it, never while a holder
\* still has a reference, and once every holder has released nothing of the
\* buffer is held any more.
C1_TeardownExactlyOnce ==
    MmapLife =>
      /\ teardowns + Cardinality(Tearing) <= 1
      /\ Holding # {} =>
           /\ teardowns = 0 /\ Tearing = {}
           /\ memtype = "MMAP" /\ buf.refcount > 0
           /\ held["buf"] = 1 /\ held["coherent"] = 1 /\ held["dev"] = 1
      /\ Tearing # {} =>
           /\ memtype = "MMAP" /\ buf.refcount = 0
           /\ held["buf"] = 1 /\ held["coherent"] = 1 /\ held["dev"] = 1
      /\ (Holding = {} /\ Tearing = {}) =>
           /\ teardowns = 1 /\ memtype = "NONE"
           /\ held = NoneHeld /\ coherent_mem = << >>

\* The framework and every export consumer have released, and the teardown ran.
C1_Witness ==
    /\ \A h \in Holders : pc[h] = "done"
    /\ teardowns = 1
    /\ op = "put"

\* C2: while the framework holds its reference, refcount is one more than the
\* number of exported dma_bufs not yet released: each export adds exactly
\* one, each release of a handle takes exactly one away, and after n exports
\* and their n releases it is back at its value before the first export.
C2_ExportReleaseBalance ==
    (memtype = "MMAP" /\ pc[Framework] = "holds") =>
      vb2_dc_num_users(buf) = 1 + Cardinality(Holding \ {Framework})

\* Every dma_buf was exported and released again; the framework still holds.
C2_Witness ==
    /\ memtype = "MMAP" /\ pc[Framework] = "holds"
    /\ \A d \in 1..MaxExports : pc[d] = "done"
    /\ vb2_dc_num_users(buf) = 1

\* C3: right after a successful vb2_dc_alloc the descriptor has refcount 1,
\* carries the CPU mapping and the device address of the coherent allocation
\* (no map step was made) and holds one device reference taken by that call.
C3_AllocState ==
    (op = "alloc" /\ ret = 0) =>
      /\ memtype = "MMAP"
      /\ vb2_dc_num_users(buf) = 1
      /\ buf.vaddr # NULL
      /\ buf.dma_sgt = NoSgt
      /\ coherent_mem = <<[vaddr |-> buf.vaddr, dma_addr |-> buf.dma_addr,
                           size |-> args.size]>>
      /\ buf.size = args.size
      /\ buf.dev # NULL
      /\ held["dev"] = 1
      /\ trace = <<Acq("buf"), Acq("coherent"), Acq("dev")>>

C3_Witness ==
    /\ op = "alloc" /\ ret = 0
    /\ buf.size = MaxSize
    /\ buf.dma_addr = MaxAddr

C5_PinnedContiguous ==
    /\ (memtype = "USERPTR" /\ buf.vec.is_pages) =>
         /\ buf.dma_sgt # NoSgt
         /\ vb2_dc_get_contiguous_size(buf.dma_sgt) >= buf.size
         /\ buf.dma_addr = sg_dma_address(buf.dma_sgt[1])
    /\ (op = "get_userptr" /\ ret = 0 /\ buf.vec.is_pages) =>
         /\ buf.size = args.size
         /\ contig_size = vb2_dc_get_contiguous_size(buf.dma_sgt)
    /\ (op = "get_userptr" /\ contig_size # NoContig /\ contig_size < args.size) =>
         /\ ret = -EFAULT
         /\ memtype = "NONE"
         /\ buf = ZeroBuf

\* A pinned buffer whose two segments together cover the size asked for.
C5_Witness ==
    /\ op = "get_userptr" /\ ret = 0
    /\ Len(buf.dma_sgt) = 2
    /\ vb2_dc_get_contiguous_size(buf.dma_sgt) > sg_dma_len(buf.dma_sgt[1])
    /\ buf.size > sg_dma_len(buf.dma_sgt[1])

\* C6: a failing vb2_dc_get_userptr releases exactly what it acquired before
\* the failing step, each resource once and in reverse order of acquisition,
\* and holds nothing when it returns; a call rejected by the alignment or
\* zero-size check acquires nothing.
C6_PinRollback ==
    (op = "get_userptr" /\ ret < 0) =>
      /\ memtype = "NONE" /\ buf = ZeroBuf
      /\ held = NoneHeld
      /\ trace = Acqs(trace) \o Rels(trace)
      /\ ResOf(Rels(trace)) = Reverse(ResOf(Acqs(trace)))
      /\ ~userptr_args_ok(args.vaddr, args.size) => (ret = -EINVAL /\ trace = << >>)
      /\ ret = -EIO =>
           ResOf(Acqs(trace)) = <<"buf", "vec", "sgt", "sgt_entries">>
      /\ contig_size # NoContig =>
           ResOf(Acqs(trace)) = <<"buf", "vec", "sgt", "sgt_entries", "dma_map">>

\* The contiguity check failed after all five resources were acquired.
C6_Witness ==
    /\ op = "get_userptr" /\ ret = -EFAULT
    /\ contig_size # NoContig
    /\ Len(trace) = 10
    /\ held = NoneHeld

\* C7 (as stated): vb2_dc_map_dmabuf on a buffer that is already mapped
\* returns an error, not success, leaves the descriptor unchanged and does
\* not ask the exporter for its table again.
C7_DoubleMapRejected ==
    [][(memtype = "DMABUF" /\ buf.dma_sgt # NoSgt /\ op' = "map_dmabuf") =>
         /\ ret' < 0
         /\ buf' = buf
         /\ Acqs(trace') = << >>]_vars

\* C8: when vb2_dc_map_dmabuf obtains a table whose contiguous size is below
\* buf->size it returns -EFAULT, hands the table back to the exporter once
\* and leaves the buffer unmapped; when the run is at least buf->size the
\* buffer is mapped, with the first segment's address as dma_addr.
C8_MapContiguity ==
    (op = "map_dmabuf" /\ contig_size # NoContig) =>
      IF contig_size < buf.size
      THEN /\ ret = -EFAULT
           /\ trace = <<Acq("map_attach"), Rel("map_attach")>>
           /\ held["map_attach"] = 0
           /\ buf.dma_sgt = NoSgt /\ buf.dma_addr = 0
      ELSE /\ ret = 0
           /\ trace = <<Acq("map_attach")>>
           /\ held["map_attach"] = 1
           /\ buf.dma_sgt # NoSgt
           /\ vb2_dc_get_contiguous_size(buf.dma_sgt) = contig_size
           /\ buf.dma_addr = sg_dma_address(buf.dma_sgt[1])

\* The exporter's table was obtained, found too short and handed back.
C8_Witness ==
    /\ op = "map_dmabuf" /\ ret = -EFAULT
    /\ contig_size # NoContig /\ contig_size >= 1
    /\ buf.size > contig_size

\* C9 (as stated): for a DMABUF descriptor dma_addr and dma_sgt are both
\* absent or both present, whatever address the exporter's table carries,
\* and the descriptor is unmapped right after attach.
C9_AddrAndTableTogether ==
    memtype = "DMABUF" =>
      /\ (buf.dma_addr = 0) <=> (buf.dma_sgt = NoSgt)
      /\ (op = "attach_dmabuf" /\ ret = 0) => buf.dma_sgt = NoSgt

\* C10 (as stated): vb2_dc_detach_dmabuf on a buffer whose table is still
\* present unmaps it first: the exporter's mapping is released before the
\* attachment, and none is outstanding after detach.
C10_DetachForcesUnmap ==
    [][(memtype = "DMABUF" /\ buf.dma_sgt # NoSgt /\ op' = "detach_dmabuf") =>
         /\ held'["map_attach"] = 0
         /\ \E i \in Positions(trace', Rel("map_attach")) :
              \A j \in Positions(trace', Rel("attach")) : i < j]_vars

\* C11: vb2_dc_unmap_dmabuf on a mapped buffer calls dma_buf_vunmap (when
\* buf->vaddr is set) before dma_buf_unmap_attachment, each once, and then
\* clears dma_addr and dma_sgt; on a buffer that is not attached or not
\* mapped it releases nothing and leaves the descriptor as it was.
C11_UnmapOrder ==
    [][/\ (memtype = "DMABUF" /\ op' = "unmap_dmabuf") =>
            IF buf.db_attach # NULL /\ buf.dma_sgt # NoSgt
            THEN /\ Acqs(trace') = << >>
                 /\ Positions(trace', Rel("map_attach")) = {Len(trace')}
                 /\ Positions(trace', Rel("vmap")) =
                      (IF buf.vaddr # NULL THEN {1} ELSE {})
                 /\ Len(trace') = (IF buf.vaddr # NULL THEN 2 ELSE 1)
                 /\ held' = [held EXCEPT
                               !["map_attach"] = @ - 1,
                               !["vmap"] = @ - (IF buf.vaddr # NULL THEN 1 ELSE 0)]
                 /\ buf' = [buf EXCEPT !.vaddr = NULL, !.dma_addr = 0,
                                       !.dma_sgt = NoSgt]
            ELSE /\ Acqs(trace') = << >> /\ Rels(trace') = << >>
                 /\ held' = held
                 /\ buf' = buf
       /\ buf.db_attach = NULL =>
            /\ vb2_dc_unmap_buf(buf) = buf
            /\ Rels(vb2_dc_unmap_events(buf)) = << >>]_vars

\* An unmap released the CPU mapping and then the exporter's table.
C11_Witness ==
    /\ op = "unmap_dmabuf"
    /\ trace = <<Rel("vmap"), Rel("map_attach")>>
    /\ buf.dma_sgt = NoSgt /\ buf.vaddr = NULL

\* C12: a vb2_dc_dmabuf_ops_map whose direction is the one cached in the
\* attachment returns that attachment's own table, calls neither dma_map_sg
\* nor dma_unmap_sg and leaves every attachment as it was, however often it
\* is repeated; vb2_dc_dmabuf_ops_unmap in between changes nothing.
C12_CachedMapIdempotent ==
    [][/\ \A t \in Callers :
            (/\ call[t].pc = "check"
             /\ call'[t].pc # "check"
             /\ attachments[call[t].a].dma_dir = call[t].dma_dir) =>
              /\ call'[t] = IdleCall
              /\ xlast'.name = "ops_map" /\ xlast'.ret = call[t].a
              /\ call[t].events = << >>
              /\ attachments' = attachments
              /\ lock' = 0
       /\ (xlast' # xlast /\ xlast'.name = "ops_unmap") =>
            attachments' = attachments]_vars

\* The cached table was returned by a map that followed an ops_unmap, with
\* the translation of the first map still the only one.
C12_Witness ==
    /\ xlast.name = "ops_map" /\ xlast.cached /\ xlast.after_unmap
    /\ xlast.ret = 1
    /\ Len(attachments[1].mapped) = 1
    /\ attachments[1].dma_dir = attachments[1].mapped[1]

\* C13: a vb2_dc_dmabuf_ops_map whose direction differs from the cached one
\* calls dma_unmap_sg with the direction the live translation was made with
\* before it calls dma_map_sg with the new one, so an attachment's table
\* never carries more than one live translation; after a successful map the
\* cached direction is the direction asked for.
C13_RemapReleasesFirst ==
    [][/\ \A a \in 1..MaxAttach :
            Len(attachments[a].mapped) <= 1 /\ Len(attachments'[a].mapped) <= 1
       /\ \A t \in Callers :
            LET a == call[t].a
                d == call[t].dma_dir
            IN  /\ (call[t].pc = "check" /\ call'[t].pc = "translate") =>
                     /\ attachments[a].dma_dir # d
                     /\ attachments'[a].mapped = << >>
                     /\ call'[t].events =
                          (IF attachments[a].mapped # << >>
                           THEN <<UnmapSg(attachments[a].mapped[1])>>
                           ELSE << >>)
                /\ (call[t].pc = "translate" /\ call'[t].pc = "setdir") =>
                     /\ attachments[a].mapped = << >>
                     /\ attachments'[a].mapped = <<d>>
                     /\ call'[t].events = Append(call[t].events, MapSg(d))
                /\ (call[t].pc = "setdir" /\ call'[t].pc = "idle") =>
                     /\ xlast'.name = "ops_map" /\ xlast'.ret = a
                     /\ attachments'[a].dma_dir = d
                     /\ attachments'[a].mapped = <<d>>]_vars

\* A map with a new direction has released the old translation and made the
\* new one.
C13_Witness ==
    \E t \in Callers :
      /\ call[t].pc = "setdir"
      /\ Len(call[t].events) = 2
      /\ call[t].events[1].k = "rel" /\ call[t].events[2].k = "acq"
      /\ call[t].events[1].dir # call[t].events[2].dir
      /\ attachments[call[t].a].mapped = <<call[t].dma_dir>>

\* The callers between mutex_lock and mutex_unlock of vb2_dc_dmabuf_ops_map.
InMapLocked == {t \in Callers : call[t].pc \in {"check", "translate", "setdir"}}

\* C19: at most one caller of vb2_dc_dmabuf_ops_map is between mutex_lock and
\* mutex_unlock of dmabuf->lock, whatever directions the concurrent calls
\* ask for, and the lock is held exactly while a caller is there: the cached
\* return, the failed dma_map_sg and the successful return all unlock.
C19_MapMutex ==
    /\ Cardinality(InMapLocked) <= 1
    /\ (lock = 0) <=> (InMapLocked = {})
    /\ lock # 0 => InMapLocked = {lock}

\* One caller is remapping the table while another, asking for a different
\* direction on the same attachment, waits for the lock.
C19_Witness ==
    \E t, u \in Callers :
      /\ call[t].pc = "setdir"
      /\ call[u].pc = "lock"
      /\ call[u].a = call[t].a
      /\ call[u].dma_dir # call[t].dma_dir
      /\ lock = t

\* C14: vb2_dc_prepare and vb2_dc_finish synchronise the cache (once, with
\* dma_sync_sg_for_device and dma_sync_sg_for_cpu) only for a buffer that has
\* a table and is not a DMABUF buffer; for any other buffer they do nothing;
\* they never change the descriptor or what is held.
C14_SyncOnlyOwnTable ==
    [][(op' \in {"prepare", "finish"}) =>
         /\ buf' = buf
         /\ held' = held
         /\ memtype' = memtype
         /\ ret' = 0
         /\ trace' =
              (IF buf.dma_sgt # NoSgt /\ memtype # "DMABUF"
               THEN <<Note(IF op' = "prepare" THEN "dma_sync_sg_for_device"
                           ELSE "dma_sync_sg_for_cpu")>>
               ELSE << >>)]_vars

\* finish was a no-op on a mapped DMABUF buffer.
C14_Witness ==
    /\ op = "finish"
    /\ memtype = "DMABUF"
    /\ buf.dma_sgt # NoSgt
    /\ trace = << >>

\* C15 (as stated): vb2_dc_alloc with size 0 returns -EINVAL and no
\* descriptor, without asking the allocator for memory and without taking a
\* reference to the device.
C15_ZeroSizeRejected ==
    (op = "alloc" /\ args.size = 0) =>
      /\ ret = -EINVAL
      /\ memtype = "NONE"
      /\ buf = ZeroBuf
      /\ trace = << >>
      /\ held = NoneHeld

\* vb2_dc_alloc returned a descriptor for size 0.
C15_Witness ==
    /\ op = "alloc" /\ args.size = 0
    /\ ret = 0
    /\ memtype = "MMAP"
    /\ held["coherent"] = 1 /\ held["dev"] = 1

\* C16 (as stated): vb2_dc_attach_dmabuf succeeds only when dbuf->size is at
\* least size; a smaller dma_buf is rejected with -EINVAL before a
\* descriptor or an attachment is made; a failed attach leaves no descriptor;
\* the descriptor of a successful attach is unmapped.
C16_UndersizedInvalidArgument ==
    (op = "attach_dmabuf") =>
      /\ ret = 0 =>
           /\ args.dbuf_size >= args.size
           /\ memtype = "DMABUF"
           /\ buf.size = args.size /\ buf.db_attach # NULL
           /\ buf.dma_sgt = NoSgt /\ buf.dma_addr = 0 /\ buf.vaddr = NULL
           /\ trace = <<Acq("buf"), Acq("attach")>>
      /\ args.dbuf_size < args.size =>
           /\ ret = -EINVAL
           /\ trace = << >>
      /\ ret # 0 =>
           /\ ret < 0
           /\ memtype = "NONE" /\ buf = ZeroBuf
           /\ held = NoneHeld

\* C16 (amended): as above, but the error for a dma_buf that is too small is
\* -EFAULT, the code the file also uses for a contiguous chunk that is too
\* small, not -EINVAL.
C16_UndersizedFault ==
    (op = "attach_dmabuf") =>
      /\ ret = 0 =>
           /\ args.dbuf_size >= args.size
           /\ memtype = "DMABUF"
           /\ buf.size = args.size /\ buf.db_attach # NULL
           /\ buf.dma_sgt = NoSgt /\ buf.dma_addr = 0 /\ buf.vaddr = NULL
           /\ trace = <<Acq("buf"), Acq("attach")>>
      /\ args.dbuf_size < args.size =>
           /\ ret = -EFAULT
           /\ trace = << >>
      /\ ret # 0 =>
           /\ ret < 0
           /\ memtype = "NONE" /\ buf = ZeroBuf
           /\ held = NoneHeld

\* A dma_buf one byte too small was turned down.
C16_Witness ==
    /\ op = "attach_dmabuf"
    /\ args.dbuf_size + 1 = args.size
    /\ ret = -EFAULT
    /\ held = NoneHeld

\* The directions with which the device may write to the buffer.
DeviceWrites == {"DMA_FROM_DEVICE", "DMA_BIDIRECTIONAL"}

\* C17 (as stated): vb2_dc_put_userptr on a buffer with a table unmaps it,
\* then calls set_page_dirty_lock on each pinned page if and only if dma_dir
\* is DMA_FROM_DEVICE or DMA_BIDIRECTIONAL, then frees the table, destroys
\* the frame vector and frees the descriptor.
C17_DirtyOnlyIfDeviceWrote ==
    [][(memtype = "USERPTR" /\ buf.dma_sgt # NoSgt /\ op' = "put_userptr") =>
         trace' = <<Rel("dma_map")>>
                  \o (IF buf.dma_dir \in DeviceWrites
                      THEN [i \in 1..buf.vec.n |-> Note("set_page_dirty_lock")]
                      ELSE << >>)
                  \o <<Rel("sgt_entries"), Rel("sgt"), Rel("vec"), Rel("buf")>>]_vars

\* What vb2_dc_get_userptr left when frame_vector_to_pages failed on the
\* frame numbers args.nums.
PfnFallbackOutcome ==
    (op = "get_userptr" /\ args.nums # << >>) =>
      IF \A i \in 1..(Len(args.nums) - 1) : args.nums[i + 1] = args.nums[i] + 1
      THEN /\ ret = 0
           /\ memtype = "USERPTR"
           /\ buf.dma_sgt = NoSgt
           /\ buf.dma_addr = args.nums[1] * (2 ^ PAGE_SHIFT)
           /\ buf.size = args.size
           /\ buf.vec.pfns = args.nums /\ ~buf.vec.is_pages
           /\ trace = <<Acq("buf"), Acq("vec")>>
           /\ held = [NoneHeld EXCEPT !["buf"] = 1, !["vec"] = 1]
      ELSE /\ ret < 0
           /\ memtype = "NONE" /\ buf = ZeroBuf
           /\ trace = <<Acq("buf"), Acq("vec"), Rel("vec"), Rel("buf")>>
           /\ held = NoneHeld

\* C18: when the range does not resolve to pages, vb2_dc_get_userptr
\* succeeds exactly when each frame number is its predecessor plus one; the
\* descriptor then has the address of the first frame (pfn << PAGE_SHIFT) and
\* no table, and vb2_dc_put_userptr of it only destroys the frame vector and
\* frees the descriptor; otherwise the call fails with both released.
C18_PfnFallback ==
    [][/\ PfnFallbackOutcome
       /\ PfnFallbackOutcome'
       /\ (memtype = "USERPTR" /\ ~buf.vec.is_pages /\ op' = "put_userptr") =>
            /\ trace' = <<Rel("vec"), Rel("buf")>>
            /\ held' = NoneHeld
            /\ memtype' = "NONE"]_vars

\* Two consecutive frames above frame 0 were accepted.
C18_Witness ==
    /\ op = "get_userptr" /\ ret = 0
    /\ ~buf.vec.is_pages
    /\ buf.vec.n = 2
    /\ buf.vec.pfns[1] = 1 /\ buf.vec.pfns[2] = 2
    /\ buf.dma_addr = 2
    /\ buf.dma_sgt = NoSgt

\* The first k segments of sgt form one run: each starts where the one
\* before it ends.
IsRun(sgt, k) ==
    \A i \in 2..k : sgt[i].addr = sgt[i - 1].addr + sgt[i - 1].len

\* The number of segments of the longest such prefix.
LongestRun(sgt) ==
    CHOOSE k \in 1..Len(sgt) :
      IsRun(sgt, k) /\ (k = Len(sgt) \/ ~IsRun(sgt, k + 1))

RECURSIVE SumLen(_, _)
SumLen(sgt, k) == IF k = 0 THEN 0 ELSE sgt[k].len + SumLen(sgt, k - 1)

\* C20: for every non-empty table vb2_dc_get_contiguous_size returns the sum
\* of the lengths of its longest prefix in which every segment after the
\* first starts at the previous segment's address plus length; a gap or an
\* overlap ends the run: [(0,1),(1,2),(4,1)] gives 3 and [(0,2),(1,2)]
\* gives 2.
C20_ContiguousRunLength ==
    contig_size # NoContig =>
      /\ contig_size = SumLen(sgt_arg, LongestRun(sgt_arg))
      /\ contig_size >= sgt_arg[1].len
      /\ (sgt_arg = <<[addr |-> 0, len |-> 1], [addr |-> 1, len |-> 2],
                      [addr |-> 4, len |-> 1]>>) => contig_size = 3
      /\ (sgt_arg = <<[addr |-> 0, len |-> 2], [addr |-> 1, len |-> 2]>>) =>
           contig_size = 2

\* Two contiguous segments followed by one behind a gap were measured.
C20_Witness ==
    /\ contig_size = 3
    /\ sgt_arg = <<[addr |-> 0, len |-> 1], [addr |-> 1, len |-> 2],
                   [addr |-> 4, len |-> 1]>>

\* C21 (as stated): every mapping that vb2_dc_vaddr obtained with
\* dma_buf_vmap is released with dma_buf_vunmap exactly once, at the latest
\* by detach: the mappings outstanding are exactly the one cached in
\* buf->vaddr (so a second vb2_dc_vaddr makes no new one, and neither map nor
\* detach drops one unreleased), and none is outstanding after detach.
C21_VmapReleasedOnce ==
    /\ memtype = "DMABUF" =>
         held["vmap"] = (IF buf.vaddr # NULL THEN 1 ELSE 0)
    /\ op = "detach_dmabuf" => held["vmap"] = 0

\* A mapping made before map was dropped by map and is still outstanding
\* after unmap and detach.
C21_Witness ==
    /\ op = "detach_dmabuf"
    /\ memtype = "NONE"
    /\ held["vmap"] >= 1
    /\ held["map_attach"] = 0

\* No caller is inside the locked part of vb2_dc_dmabuf_ops_map for
\* attachment a.
NoMapInProgress(a) == \A t \in InMapLocked : call[t].a # a

\* C22: between the calls on an attachment its cached direction is DMA_NONE
\* exactly when its table has no live device translation, and a freed
\* attachment leaves none behind: attach starts at DMA_NONE; a map whose
\* dma_map_sg maps nothing returns -EIO with the direction DMA_NONE and the
\* previous translation released; vb2_dc_dmabuf_ops_unmap changes nothing;
\* detach calls dma_unmap_sg once, only when a direction is cached, before
\* sg_free_table and kfree.
C22_DirectionTracksTranslation ==
    [][/\ \A a \in 1..MaxAttach :
            /\ (attachments'[a].priv /\ NoMapInProgress(a)') =>
                 /\ (attachments'[a].dma_dir = DMA_NONE)
                      <=> (attachments'[a].mapped = << >>)
                 /\ attachments'[a].mapped \in {<< >>, <<attachments'[a].dma_dir>>}
            /\ ~attachments'[a].priv => attachments'[a] = NoAttachment
            /\ (~attachments[a].priv /\ attachments'[a].priv) =>
                 /\ xlast'.name = "ops_attach" /\ xlast'.ret = 0
                 /\ attachments'[a].dma_dir = DMA_NONE
            /\ (attachments[a].priv /\ ~attachments'[a].priv) =>
                 /\ xlast'.name = "ops_detach"
                 /\ xlast'.events =
                      (IF attachments[a].mapped # << >>
                       THEN <<UnmapSg(attachments[a].mapped[1])>> ELSE << >>)
                      \o <<FreeSgt, FreeAttachment>>
       /\ \A t \in Callers :
            (call[t].pc = "translate" /\ call'[t].pc = "idle") =>
              /\ xlast'.name = "ops_map" /\ xlast'.ret = -EIO
              /\ attachments'[call[t].a].dma_dir = DMA_NONE
              /\ attachments'[call[t].a].mapped = << >>
              /\ lock' = 0
       /\ (xlast' # xlast /\ xlast'.name = "ops_unmap") =>
            attachments' = attachments]_vars

\* A mapped attachment was detached: its translation was undone, then its
\* table and the attachment were freed.
C22_Witness ==
    /\ xlast.name = "ops_detach"
    /\ Len(xlast.events) = 3
    /\ xlast.events[1].k = "rel" /\ xlast.events[1].r = "dma_map"
    /\ attachments[1] = NoAttachment

====
